---------------------------- MODULE Spec2Model ----------------------------
(***************************************************************************)
(* KiCAD_Utilities: the line scanner that rewrites footprint coordinates   *)
(* (KiCadUtils.update_footprint), the channel remapper                     *)
(* (KiCadUtils.apply_remapping_v2), the circle extractor                   *)
(* (KiCadUtils.get_coordinates_from_dxf) and the interactive script's      *)
(* main().                                                                 *)
(*                                                                         *)
(* Conventions.  Python lists are TLA+ sequences, so line and row          *)
(* positions are 1-based here (Python index + 1).  Lengths in mm are       *)
(* integers: coordinates in hundredths, radii in tenths.  A text line is   *)
(* the record of the substrings the scanner tests for, plus what tells two *)
(* lines apart.                                                            *)
(***************************************************************************)
EXTENDS Integers, Sequences, FiniteSets, TLC

VARIABLES
    \* ---- update_footprint ----
    fs,                  \* the file system: path -> [exists, content]
    df,                  \* the point table handed to update_footprint
    lines,               \* file.readlines(), patched in memory
    i,                   \* position of the loop over lines (1-based)
    footprints_updated,
    inside_footprint,
    found_channel,
    have_coordinates,
    coordinates_line,
    current_channel,
    warned,              \* the "Only updated .. out of .." warning was printed
    overwritten,         \* history: positions assigned by lines[coordinates_line] = ...
    pc,                  \* "idle" | "loop" | "post" | "returned" | "raised"
    \* ---- apply_remapping_v2 ----
    rdf,                 \* the table passed in
    rargs,               \* [style, label, offset, flip_y] of the call
    rbuild,              \* what the installed pandas does on a ragged assignment
    rstaged,             \* selected_df when line 373 is reached
    rresult,             \* what the call returned (or that it raised)
    rsecond,             \* what the call on its own output returned
    rpc,                 \* "idle" | "ready" | "applied" | "reapplied"
    \* ---- get_coordinates_from_dxf ----
    circles,             \* msp.query('CIRCLE'), in document order
    pcb_data_dict,       \* the spec table passed in
    eflip,               \* the flip_y argument
    eresult,             \* the returned table
    epc,                 \* "idle" | "ready" | "extracted"
    \* ---- main ----
    mpc,                 \* position in main()
    mstate,              \* main()'s locals
    mcalls               \* history: library calls entered, in order

rewriterVars == <<fs, df, lines, i, footprints_updated, inside_footprint, found_channel,
                  have_coordinates, coordinates_line, current_channel, warned,
                  overwritten, pc>>
remapVars == <<rdf, rargs, rbuild, rstaged, rresult, rsecond, rpc>>
extractVars == <<circles, pcb_data_dict, eflip, eresult, epc>>
mainVars == <<mpc, mstate, mcalls>>
vars == <<rewriterVars, remapVars, extractVars, mainVars>>
notRewriterVars == <<remapVars, extractVars, mainVars>>
notRemapVars == <<rewriterVars, extractVars, mainVars>>
notExtractVars == <<rewriterVars, remapVars, mainVars>>
notMainVars == <<rewriterVars, remapVars, extractVars>>

(***************************************************************************)
(* Bounds of the model.                                                    *)
(***************************************************************************)
MaxBlocks == 3           \* footprint blocks in a PCB file
MaxRows == 2             \* rows of the table handed to update_footprint
MaxSmall == 3            \* rows of the tables with freely chosen coordinates
MaxGrid == 130           \* rows of one label in the grid-shaped tables
MaxCircles == 3          \* circles in a drawing

(***************************************************************************)
(* Small helpers on sequences.                                             *)
(***************************************************************************)
Range(s) == {s[k] : k \in DOMAIN s}

SeqsUpTo(S, n) == UNION {[1..k -> S] : k \in 0..n}

RECURSIVE Flatten(_)
Flatten(ss) == IF ss = <<>> THEN <<>> ELSE Head(ss) \o Flatten(Tail(ss))

SetMin(S) == CHOOSE m \in S : \A n \in S : m <= n
SetMax(S) == CHOOSE m \in S : \A n \in S : m >= n

(***************************************************************************)
(* Python's None for the two scanner variables that start as None.         *)
(***************************************************************************)
NoneVal == -1

(***************************************************************************)
(* ======================= update_footprint ============================== *)
(***************************************************************************)

\* The footprint name passed to update_footprint, and another one in the file.
footprint_name == "F"
other_footprint == "G"

NoDesignator == <<>>

\* A text line, as the scanner sees it.
\*   decl       : the name N when the line contains (footprint "N" , else ""
\*   at         : the line contains "(at "
\*   property   : the line contains "property"
\*   hasRef     : the line contains (property "Reference" "
\*   designator : the text between that quote and the next one, as characters
\*   indent, xy : the rest of the text of a coordinate line
Line(decl, at, property, hasRef, designator, indent, xy) ==
    [decl |-> decl, at |-> at, property |-> property, hasRef |-> hasRef,
     designator |-> designator, indent |-> indent, xy |-> xy]

DeclLine(name) == Line(name, FALSE, FALSE, FALSE, NoDesignator, 1, <<>>)
AtLine(xy) == Line("", TRUE, FALSE, FALSE, NoDesignator, 1, xy)
RefLine(d) == Line("", FALSE, TRUE, TRUE, d, 2, <<>>)
PropAtLine == Line("", TRUE, TRUE, FALSE, NoDesignator, 2, <<0, 0>>)
OtherLine == Line("", FALSE, FALSE, FALSE, NoDesignator, 1, <<>>)

\* f'\t\t(at {xi} {yi})\n'
FormatCoordinateLine(xi, yi) == Line("", TRUE, FALSE, FALSE, NoDesignator, 2, <<xi, yi>>)

\* f'(footprint "{footprint_name}"' in line and 'property' not in line
IsFootprintDeclaration(line, name) == line.decl = name /\ ~line.property

\* '(at ' in line and 'property' not in line
IsCoordinateLine(line) == line.at /\ ~line.property

\* '(property "Reference" "' in line
IsReferenceLine(line) == line.hasRef

Digits == {"0", "1", "2", "3", "4", "5", "6", "7", "8", "9"}

DigitValue(c) ==
    CASE c = "0" -> 0 [] c = "1" -> 1 [] c = "2" -> 2 [] c = "3" -> 3 [] c = "4" -> 4
      [] c = "5" -> 5 [] c = "6" -> 6 [] c = "7" -> 7 [] c = "8" -> 8 [] c = "9" -> 9

\* int() of the characters a..b of d
RECURSIVE ToInt(_, _, _)
ToInt(d, a, b) == IF a > b THEN 0 ELSE 10 * ToInt(d, a, b - 1) + DigitValue(d[b])

HasDigits(d) == \E k \in DOMAIN d : d[k] \in Digits

\* re.split(r'(\d+)', ref)[1]: the first maximal run of digits of the designator.
\* Without a digit the list has one element and [1] raises IndexError.
FirstDigit(d) == SetMin({k \in DOMAIN d : d[k] \in Digits})
RunEnd(d, a) == SetMax({b \in a..Len(d) : \A k \in a..b : d[k] \in Digits})
ReferenceChannel(d) == ToInt(d, FirstDigit(d), RunEnd(d, FirstDigit(d)))

\* df[df['channel'] == current_channel]: the positions of the matching rows.
MatchingRows(table, channel) == {k \in DOMAIN table : table[k].channel = channel}

\* row['x'].values[0], row['y'].values[0]: the first matching row.
FirstMatch(table, channel) == table[SetMin(MatchingRows(table, channel))]

\* (a scanner that stops one update short)
StopOneShort(updated, num) == updated + 1 >= num

\* if footprints_updated >= num_footprints: break
StopEarly(updated, num) == updated >= num

\* filepath, ext = os.path.splitext(filename); f"{filepath}{'_updated'}{ext}"
NewFilename(path) == [stem |-> path.stem \o <<"_updated">>, ext |-> path.ext]

\* (a writer that does not look at the count)
AlwaysWrites(updated) == TRUE

\* if footprints_updated == 0: ... return   (before the file is opened for writing)
WritesOutput(updated) == updated # 0


(***************************************************************************)
(* The inputs of update_footprint: a PCB file and a point table.           *)
(***************************************************************************)
U1 == <<"U", "1">>
U2 == <<"U", "2">>
U12 == <<"U", "1", "2">>
REFSTARS == <<"R", "E", "F", "*", "*">>
U1A2 == <<"U", "1", "A", "2">>
Designators == {U1, U2, U12, REFSTARS, U1A2}

OldCoordinates == <<100, 50>>
OldCoordinates2 == <<0, 0>>

\* What may follow the declaration of the footprint to update ...
FootprintBodies ==
    {<<AtLine(OldCoordinates), RefLine(d)>> : d \in Designators}
    \cup {<<RefLine(U2), AtLine(OldCoordinates)>>,
          <<AtLine(OldCoordinates)>>,
          <<RefLine(U2)>>,
          <<AtLine(OldCoordinates), AtLine(OldCoordinates2), RefLine(U1)>>,
          <<OtherLine, PropAtLine, AtLine(OldCoordinates), RefLine(U2)>>}

\* ... and the declaration of another footprint.
OtherBodies ==
    {<<AtLine(OldCoordinates), RefLine(U1)>>,
     <<AtLine(OldCoordinates), RefLine(U2)>>,
     <<>>}

Blocks ==
    {<<DeclLine(footprint_name)>> \o b : b \in FootprintBodies}
    \cup {<<DeclLine(other_footprint)>> \o b : b \in OtherBodies}

\* A file: one coordinate line that belongs to no footprint, then the blocks.
PcbFiles == {<<AtLine(OldCoordinates2)>> \o Flatten(bs) : bs \in SeqsUpTo(Blocks, MaxBlocks)}

\* The rows handed over carry the coordinates and the channel; the scanner reads no
\* other column.  Every row gets coordinates that name its position in the table.
TableChannels == {1, 2}
PointRow(k, channel) == [x |-> 1000 * k + channel, y |-> -k, channel |-> channel]
PointTables == {[k \in DOMAIN cs |-> PointRow(k, cs[k])] : cs \in SeqsUpTo(TableChannels, MaxRows)}

filename == [stem |-> <<"board">>, ext |-> ".kicad_pcb"]
Paths == {filename, NewFilename(filename)}
Absent == [exists |-> FALSE, content |-> <<>>]
File(content) == [exists |-> TRUE, content |-> content]

\* df.shape[0]
num_footprints == Len(df)

(***************************************************************************)
(* The state at line 137: the file is read, the scanner variables are set. *)
(***************************************************************************)
InitRewriter ==
    \E file \in PcbFiles, table \in PointTables :
        /\ fs = [p \in Paths |-> IF p = filename THEN File(file) ELSE Absent]
        /\ df = table
        /\ lines = file
        /\ i = 1
        /\ footprints_updated = 0
        /\ inside_footprint = FALSE
        /\ found_channel = FALSE
        /\ have_coordinates = FALSE
        /\ coordinates_line = NoneVal
        /\ current_channel = NoneVal
        /\ warned = FALSE
        /\ overwritten = {}
        /\ pc = "loop"

IdleRewriter ==
    /\ fs = [p \in Paths |-> Absent]
    /\ df = <<>>
    /\ lines = <<>>
    /\ i = 1
    /\ footprints_updated = 0
    /\ inside_footprint = FALSE
    /\ found_channel = FALSE
    /\ have_coordinates = FALSE
    /\ coordinates_line = NoneVal
    /\ current_channel = NoneVal
    /\ warned = FALSE
    /\ overwritten = {}
    /\ pc = "idle"

\* The three tests of one iteration, in the order of the code (lines 143-161).
InsideAfterDeclaration(line) ==
    inside_footprint \/ IsFootprintDeclaration(line, footprint_name)
SeesCoordinates(line) == InsideAfterDeclaration(line) /\ IsCoordinateLine(line)
SeesReference(line) == InsideAfterDeclaration(line) /\ IsReferenceLine(line)

\* One iteration of the loop that neither breaks nor raises (lines 138-175).
ScanLine ==
    /\ pc = "loop"
    /\ i <= Len(lines)
    /\ ~StopEarly(footprints_updated, num_footprints)
    /\ LET line == lines[i]
           inside == InsideAfterDeclaration(line)
           have == have_coordinates \/ SeesCoordinates(line)
           cline == IF SeesCoordinates(line) THEN i ELSE coordinates_line
           found == found_channel \/ SeesReference(line)
           channel == IF SeesReference(line)
                      THEN ReferenceChannel(line.designator) ELSE current_channel
           commit == inside /\ have /\ found
           hit == commit /\ MatchingRows(df, channel) # {}
       IN  /\ SeesReference(line) => HasDigits(line.designator)
           /\ lines' = IF hit
                       THEN [lines EXCEPT ![cline] =
                               FormatCoordinateLine(FirstMatch(df, channel).x,
                                                    FirstMatch(df, channel).y)]
                       ELSE lines
           /\ overwritten' = IF hit THEN overwritten \cup {cline} ELSE overwritten
           /\ footprints_updated' = IF hit THEN footprints_updated + 1
                                    ELSE footprints_updated
           /\ inside_footprint' = (inside /\ ~commit)
           /\ have_coordinates' = (have /\ ~commit)
           /\ found_channel' = (found /\ ~commit)
           /\ current_channel' = IF commit THEN NoneVal ELSE channel
           /\ coordinates_line' = cline
    /\ i' = i + 1
    /\ UNCHANGED <<fs, df, warned, pc>>
    /\ UNCHANGED notRewriterVars

\* The iteration in which int(new_ref[1]) raises IndexError (line 159): the
\* exception leaves update_footprint, nothing is written.
ScanLineRaises ==
    /\ pc = "loop"
    /\ i <= Len(lines)
    /\ ~StopEarly(footprints_updated, num_footprints)
    /\ LET line == lines[i]
       IN  /\ SeesReference(line)
           /\ ~HasDigits(line.designator)
           /\ inside_footprint' = InsideAfterDeclaration(line)
           /\ have_coordinates' = (have_coordinates \/ SeesCoordinates(line))
           /\ coordinates_line' = IF SeesCoordinates(line) THEN i ELSE coordinates_line
    /\ pc' = "raised"
    /\ UNCHANGED <<fs, df, lines, i, footprints_updated, found_channel, current_channel,
                   warned, overwritten>>
    /\ UNCHANGED notRewriterVars

\* break (line 140)
BreakLoop ==
    /\ pc = "loop"
    /\ i <= Len(lines)
    /\ StopEarly(footprints_updated, num_footprints)
    /\ pc' = "post"
    /\ UNCHANGED <<fs, df, lines, i, footprints_updated, inside_footprint, found_channel,
                   have_coordinates, coordinates_line, current_channel, warned,
                   overwritten>>
    /\ UNCHANGED notRewriterVars

\* the loop runs out of lines
EndLoop ==
    /\ pc = "loop"
    /\ i > Len(lines)
    /\ pc' = "post"
    /\ UNCHANGED <<fs, df, lines, i, footprints_updated, inside_footprint, found_channel,
                   have_coordinates, coordinates_line, current_channel, warned,
                   overwritten>>
    /\ UNCHANGED notRewriterVars

\* lines 184-186: nothing was updated, return without writing
ReturnWithoutWriting ==
    /\ pc = "post"
    /\ ~WritesOutput(footprints_updated)
    /\ pc' = "returned"
    /\ UNCHANGED <<fs, df, lines, i, footprints_updated, inside_footprint, found_channel,
                   have_coordinates, coordinates_line, current_channel, warned,
                   overwritten>>
    /\ UNCHANGED notRewriterVars

\* lines 188-196: write the patched lines to the new file, warn on a partial update
WriteUpdatedFile ==
    /\ pc = "post"
    /\ WritesOutput(footprints_updated)
    /\ fs' = [fs EXCEPT ![NewFilename(filename)] = File(lines)]
    /\ warned' = (footprints_updated < num_footprints)
    /\ pc' = "returned"
    /\ UNCHANGED <<df, lines, i, footprints_updated, inside_footprint, found_channel,
                   have_coordinates, coordinates_line, current_channel, overwritten>>
    /\ UNCHANGED notRewriterVars

NextRewriter ==
    \/ ScanLine
    \/ ScanLineRaises
    \/ BreakLoop
    \/ EndLoop
    \/ ReturnWithoutWriting
    \/ WriteUpdatedFile

(***************************************************************************)
(* ====================== apply_remapping_v2 ============================= *)
(*                                                                         *)
(* A DataFrame is the sequence of its rows; a row carries its index label  *)
(* (idx), the five columns, and                                            *)
(*   nan : the row was added by .loc enlargement, its x, y, r and label    *)
(*         are NaN (the fields then hold 0 and "NaN");                     *)
(*   uid : history only, which input row this row is; no operation of the  *)
(*         code reads it.                                                  *)
(***************************************************************************)
Row(idx, x, y, r, label, channel, uid) ==
    [idx |-> idx, x |-> x, y |-> y, r |-> r, label |-> label, channel |-> channel,
     nan |-> FALSE, uid |-> uid]

\* the row that selected_df.loc[idx, 'channel'] = channel adds when idx is missing
EnlargedRow(idx, channel) ==
    [idx |-> idx, x |-> 0, y |-> 0, r |-> 0, label |-> "NaN", channel |-> channel,
     nan |-> TRUE, uid |-> 0]

Triple(row) == <<row.x, row.y, row.r, row.nan>>

Positions(rows) == [k \in 1..Len(rows) |-> k]

\* df[df['label'] == label], df[df['label'] != label]: rows keep their index labels
WithLabel(rows, label) == SelectSeq(rows, LAMBDA row : row.label = label)
WithoutLabel(rows, label) == SelectSeq(rows, LAMBDA row : row.label # label)

\* .reset_index(drop=True)
ResetIndex(rows) == [k \in 1..Len(rows) |-> [rows[k] EXCEPT !.idx = k - 1]]

\* line 293: if len(selected_df) >= 129
ReferenceThreshold == 129
\* lines 295, 296
FirstReferenceChannel == 129
LastReferenceChannel == 130

\* selected_df.loc[idx, 'channel'] = channel: idx is an index LABEL.  A frame
\* without that label is enlarged by a row holding only the channel.
SetChannelAtLabel(rows, idx, channel) ==
    IF \E k \in DOMAIN rows : rows[k].idx = idx
    THEN [k \in DOMAIN rows |->
            IF rows[k].idx = idx THEN [rows[k] EXCEPT !.channel = channel] ELSE rows[k]]
    ELSE Append(rows, EnlargedRow(idx, channel))

\* lines 293-296; len(selected_df) of line 296 is taken after line 295 has run
ForceReferenceChannels(selected) ==
    IF Len(selected) >= ReferenceThreshold
    THEN LET first == SetChannelAtLabel(selected, 0, FirstReferenceChannel)
         IN  SetChannelAtLabel(first, Len(first) - 1, LastReferenceChannel)
    ELSE selected

\* selected_df[(channel >= start) & (channel <= end)].index, in row order
RangeIndices(rows, start, end) ==
    SelectSeq(Positions(rows), LAMBDA k : rows[k].channel >= start /\ rows[k].channel <= end)

\* selected_df.loc[indices, ['x', 'y', 'r']].values
ValuesAt(rows, indices) == [j \in DOMAIN indices |-> Triple(rows[indices[j]])]

Ok(rows) == [raised |-> FALSE, rows |-> rows]
Raised == [raised |-> TRUE, rows |-> <<>>]

PutTriple(row, t) == [row EXCEPT !.x = t[1], !.y = t[2], !.r = t[3], !.nan = t[4]]

\* selected_df.loc[indices, ['x', 'y', 'r']] = values.  Equal lengths assign row by
\* row.  With unequal lengths the outcome is that of the installed pandas: an
\* empty target is skipped or raises ValueError, a single value row is broadcast
\* or raises, every other shape raises.
RECURSIVE PutValues(_, _, _, _)
PutValues(rows, indices, values, j) ==
    IF j > Len(indices) THEN rows
    ELSE PutValues([rows EXCEPT ![indices[j]] = PutTriple(rows[indices[j]], values[j])],
                   indices, values, j + 1)

AssignValues(rows, indices, values, build) ==
    CASE Len(indices) = Len(values) -> Ok(PutValues(rows, indices, values, 1))
      [] Len(indices) # Len(values) /\ Len(indices) = 0 ->
            IF build.emptyTargetRaises THEN Raised ELSE Ok(rows)
      [] Len(indices) # Len(values) /\ Len(indices) # 0 /\ Len(values) = 1 ->
            IF build.singleRowBroadcasts
            THEN Ok(PutValues(rows, indices, [j \in DOMAIN indices |-> values[1]], 1))
            ELSE Raised
      [] OTHER -> Raised

\* (an exchange that reads range1 back after it was overwritten)
SwapWithoutTemp(state, pair, build) ==
    IF state.raised THEN state
    ELSE LET rows == state.rows
             range1_indices == RangeIndices(rows, pair[1], pair[2])
             range2_indices == RangeIndices(rows, pair[3], pair[4])
             first == AssignValues(rows, range1_indices, ValuesAt(rows, range2_indices), build)
         IN  IF first.raised THEN first
             ELSE AssignValues(first.rows, range2_indices,
                               ValuesAt(first.rows, range1_indices), build)

\* lines 317-325 and 344-352, 355-361: exchange the values of two channel ranges
SwapRanges(state, pair, build) ==
    IF state.raised THEN state
    ELSE LET rows == state.rows
             range1_indices == RangeIndices(rows, pair[1], pair[2])
             range2_indices == RangeIndices(rows, pair[3], pair[4])
             temp == ValuesAt(rows, range1_indices)
             first == AssignValues(rows, range1_indices, ValuesAt(rows, range2_indices), build)
         IN  IF first.raised THEN first
             ELSE AssignValues(first.rows, range2_indices, temp, build)

RECURSIVE SwapAll(_, _, _)
SwapAll(state, pairs, build) ==
    IF pairs = <<>> THEN state
    ELSE SwapAll(SwapRanges(state, Head(pairs), build), Tail(pairs), build)

\* (the list of lines 329-340 read backwards)
swap_pairs_reversed ==
    << <<113, 120, 105, 112>>, <<113, 120, 89, 96>>, <<97, 104, 73, 80>>,
       <<113, 120, 57, 64>>, <<97, 104, 49, 56>>, <<81, 88, 41, 48>>,
       <<65, 72, 33, 40>>, <<49, 56, 25, 32>>, <<17, 24, 33, 40>>, <<9, 16, 17, 24>> >>

\* lines 301-313
swap_pairs_8by8 ==
    << <<9, 16, 17, 24>>, <<17, 24, 33, 40>>, <<49, 56, 25, 32>>, <<65, 72, 33, 40>>,
       <<81, 88, 41, 48>>, <<97, 104, 49, 56>>, <<113, 120, 57, 64>>,
       <<97, 104, 73, 80>>, <<113, 120, 89, 96>>, <<113, 120, 105, 112>> >>

\* lines 329-340
swap_pairs_8by8_swap ==
    << <<9, 16, 17, 24>>, <<17, 24, 33, 40>>, <<49, 56, 25, 32>>, <<65, 72, 33, 40>>,
       <<81, 88, 41, 48>>, <<97, 104, 49, 56>>, <<113, 120, 57, 64>>,
       <<97, 104, 73, 80>>, <<113, 120, 89, 96>>, <<113, 120, 105, 112>> >>

\* lines 355-356: channels 1-64 with 65-128
block_swap == <<1, 64, 65, 128>>

\* sort_values(by=["x", "y"], ascending=[True, False]): x ascending, then y
\* descending, NaN last, rows that compare equal keep their order
ForearmBefore(a, b) ==
    IF a.nan THEN FALSE
    ELSE IF b.nan THEN TRUE
    ELSE a.x < b.x \/ (a.x = b.x /\ a.y > b.y)

\* The stable sort, by partition around the middle row: the rows that go before
\* it are those that sort before it and the earlier rows that compare equal.
RECURSIVE SortForearm(_)
SortForearm(rows) ==
    IF Len(rows) <= 1 THEN rows
    ELSE LET mid == (Len(rows) + 1) \div 2
             pivot == rows[mid]
             left == SubSeq(rows, 1, mid - 1)
             right == SubSeq(rows, mid + 1, Len(rows))
             before == SelectSeq(left, LAMBDA row : ~ForearmBefore(pivot, row))
                       \o SelectSeq(right, LAMBDA row : ForearmBefore(row, pivot))
             after == SelectSeq(left, LAMBDA row : ForearmBefore(pivot, row))
                      \o SelectSeq(right, LAMBDA row : ~ForearmBefore(row, pivot))
         IN  SortForearm(before) \o <<pivot>> \o SortForearm(after)

\* lines 366-367
ForearmPattern(selected) ==
    LET sorted == ResetIndex(SortForearm(selected))
    IN  [k \in DOMAIN sorted |-> [sorted[k] EXCEPT !.channel = k]]

NamedStyles == {"8-by-8", "8-by-8_swap", "forearm-pattern"}

\* lines 299-367: the strategy, on selected_df
RunStrategy(selected, style, build) ==
    CASE style = "8-by-8" -> SwapAll(Ok(selected), swap_pairs_8by8, build)
      [] style = "8-by-8_swap" ->
            SwapRanges(SwapAll(Ok(selected), swap_pairs_8by8_swap, build), block_swap, build)
      [] style = "forearm-pattern" -> Ok(ForearmPattern(selected))

\* (a flip that ignores its flag)
AlwaysNegates(y, flip_y) == -y

\* lines 376-377
FlipY(y, flip_y) == IF flip_y THEN -y ELSE y

\* lines 374-377; NaN + offset and -NaN are NaN
OffsetAndFlip(row, offset, flip_y) ==
    IF row.nan THEN row
    ELSE [row EXCEPT !.x = row.x + offset[1], !.y = FlipY(row.y + offset[2], flip_y)]

\* selected_df at line 373, or the exception of a ragged assignment
Staged(table, args, build) ==
    RunStrategy(ForceReferenceChannels(WithLabel(table, args.label)), args.style, build)

\* the label is in the table and the style is a named one: line 373 is reached
\* unless an assignment raises
Reaches373(table, args) ==
    /\ args.label \in {table[k].label : k \in DOMAIN table}
    /\ args.style \in NamedStyles

\* (an unknown style that falls through to line 373 with selected_df as it is)
ReturnFallsThrough(table, args, staged) ==
    IF args.label \notin {table[k].label : k \in DOMAIN table} THEN Ok(table)
    ELSE IF staged.raised THEN Raised
    ELSE LET selected == IF args.style \in NamedStyles THEN staged.rows
                         ELSE ForceReferenceChannels(WithLabel(table, args.label))
         IN  Ok(ResetIndex(
                   [k \in DOMAIN selected |->
                       OffsetAndFlip(selected[k], args.offset, args.flip_y)]
                   \o WithoutLabel(table, args.label)))

\* lines 278-280, 369-371 (return df) and 373-387, given selected_df of line 373
Return(table, args, staged) ==
    IF ~Reaches373(table, args) THEN Ok(table)
    ELSE IF staged.raised THEN Raised
    ELSE Ok(ResetIndex(
              [k \in DOMAIN staged.rows |->
                  OffsetAndFlip(staged.rows[k], args.offset, args.flip_y)]
              \o WithoutLabel(table, args.label)))

\* apply_remapping_v2(df, remapping_style, label, offset, flip_y)
ApplyRemappingV2(table, args, build) ==
    Return(table, args, IF Reaches373(table, args) THEN Staged(table, args, build)
                        ELSE Ok(<<>>))

(***************************************************************************)
(* The tables passed in have the shape get_coordinates_from_dxf gives      *)
(* them: a RangeIndex, no two rows with the same (x, y, r, label), and per *)
(* label the channels 1, 2, .. in row order.                               *)
(***************************************************************************)
CountBefore(rs, k) == Cardinality({j \in 1..(k - 1) : rs[j].label = rs[k].label})

AsExtracted(rs) ==
    [k \in DOMAIN rs |->
        Row(k - 1, rs[k].x, rs[k].y, rs[k].r, rs[k].label, CountBefore(rs, k) + 1, k)]

\* Small tables: coordinates, radius and label of every row chosen freely.
SmallRows ==
    {[x |-> x, y |-> y, r |-> 15, label |-> "e"] : x \in {0, 100}, y \in {0, 100}}
    \cup {[x |-> 0, y |-> 0, r |-> 16, label |-> "e"],
          [x |-> 0, y |-> 0, r |-> 30, label |-> "m"],
          [x |-> 100, y |-> 100, r |-> 30, label |-> "m"]}

SmallTables ==
    {AsExtracted(rs) : rs \in {q \in SeqsUpTo(SmallRows, MaxSmall) :
                                 \A a, b \in DOMAIN q : a # b => q[a] # q[b]}}

\* Grid tables: n electrodes on an 8-wide grid, and a mounting hole nowhere, before
\* them or among them.
GridWidth == 8
GridRow(n) == [x |-> 100 * ((n - 1) % GridWidth), y |-> 100 * ((n - 1) \div GridWidth),
               r |-> 15, label |-> "e"]
HoleRow == [x |-> -500, y |-> -500, r |-> 30, label |-> "m"]
Electrodes(a, b) == [k \in 1..(b - a + 1) |-> GridRow(a + k - 1)]

GridTables ==
    UNION {{AsExtracted(Electrodes(1, n)),
            AsExtracted(<<HoleRow>> \o Electrodes(1, n)),
            AsExtracted(Electrodes(1, 1) \o <<HoleRow>> \o Electrodes(2, n))}
           : n \in (MaxSmall + 1)..MaxGrid}

IsSmall(table) == Len(table) <= MaxSmall

Styles == NamedStyles \cup {"spiral"}
Offsets == {<<0, 0>>, <<1300, -6950>>}

\* The calls made on a table.  Small tables get every combination; grid tables
\* are remapped for the electrodes, with the offset of the documentation.
CallsOn(table) ==
    IF IsSmall(table)
    THEN [style : Styles, label : {"e", "m", "q"}, offset : Offsets, flip_y : BOOLEAN]
    ELSE [style : Styles, label : {"e"}, offset : {<<1300, -6950>>}, flip_y : BOOLEAN]

\* What the installed pandas does on a ragged assignment.  Only the two swapping
\* styles assign, and on a label with fewer than 9 rows the single ragged
\* assignment (nothing into the block 1-64) raises in every build.
Builds(table, style) ==
    IF style \in {"8-by-8", "8-by-8_swap"} /\ ~IsSmall(table)
    THEN [emptyTargetRaises : BOOLEAN, singleRowBroadcasts : BOOLEAN]
    ELSE {[emptyTargetRaises |-> FALSE, singleRowBroadcasts |-> TRUE]}

InitRemap ==
    /\ rdf \in SmallTables \cup GridTables
    /\ rargs = <<>>
    /\ rbuild = <<>>
    /\ rstaged = <<>>
    /\ rresult = <<>>
    /\ rsecond = <<>>
    /\ rpc = "ready"

\* one call of apply_remapping_v2
Apply ==
    /\ rpc = "ready"
    /\ \E args \in CallsOn(rdf) : \E build \in Builds(rdf, args.style) :
          LET staged == IF Reaches373(rdf, args) THEN Staged(rdf, args, build)
                        ELSE Ok(<<>>)
          IN  /\ rargs' = args
              /\ rbuild' = build
              /\ rresult' = Return(rdf, args, staged)
              /\ rstaged' = staged.rows
    /\ rpc' = "applied"
    /\ UNCHANGED <<rdf, rsecond>>
    /\ UNCHANGED notRemapVars

\* the same forearm-pattern call on the table the first call returned
ApplyAgain ==
    /\ rpc = "applied"
    /\ rargs.style = "forearm-pattern"
    /\ ~rresult.raised
    /\ rsecond' = ApplyRemappingV2(rresult.rows, rargs, rbuild)
    /\ rpc' = "reapplied"
    /\ UNCHANGED <<rdf, rargs, rbuild, rstaged, rresult>>
    /\ UNCHANGED notRemapVars

NextRemap ==
    \/ Apply
    \/ ApplyAgain


IdleRemap ==
    /\ rdf = <<>>
    /\ rargs = <<>>
    /\ rbuild = <<>>
    /\ rstaged = <<>>
    /\ rresult = <<>>
    /\ rsecond = <<>>
    /\ rpc = "idle"

(***************************************************************************)
(* =================== get_coordinates_from_dxf ========================== *)
(*                                                                         *)
(* A circle is [cx, cy, radius] as stored in the drawing: the center in    *)
(* thousandths of a mm, the radius in hundredths.  A spec table is the     *)
(* sequence of the items of pcb_data_dict, in the order of the dict.       *)
(***************************************************************************)

\* round(v, ndigits): v in units of which `per` make one unit of the result.  The
\* drawings of the model hold no value halfway between two results (there the
\* binary value of the float decides).
RoundTo(v, per) ==
    IF v >= 0 THEN (2 * v + per) \div (2 * per) ELSE -((2 * (-v) + per) \div (2 * per))

\* round(entity.dxf.center.x, 2), round(entity.dxf.center.y, 2), round(radius, 1)
RoundCenter(v) == RoundTo(v, 10)
RoundRadius(v) == RoundTo(v, 10)

Abs(v) == IF v >= 0 THEN v ELSE -v

\* atol=0.1 of line 60, in tenths of a mm
Atol == 1

\* (a comparison without tolerance)
IsEqual(r, radius) == r = radius

\* np.isclose(r, data['radius'], atol=0.1): |r - radius| <= 0.1 + 1e-5 * |radius|;
\* on radii in tenths below 10 m the relative term never admits a further tenth
IsClose(r, radius) == Abs(r - radius) <= Atol

entity_type == "CIRCLE"

\* f'radius_{r}'
RadiusLabel(r) ==
    CASE r = 14 -> "radius_1.4" [] r = 15 -> "radius_1.5" [] r = 16 -> "radius_1.6"
      [] r = 17 -> "radius_1.7" [] r = 18 -> "radius_1.8" [] r = 20 -> "radius_2.0"
      [] r = 30 -> "radius_3.0"

\* lines 57-75: the items are tried in order, the first match gives the label and
\* ends the loop; without a match the label is made from the radius
RECURSIVE MatchLabel(_, _, _)
MatchLabel(items, n, r) ==
    IF n > Len(items) THEN RadiusLabel(r)
    ELSE IF items[n].entity = entity_type /\ IsClose(r, items[n].radius) THEN items[n].name
    ELSE MatchLabel(items, n + 1, r)

\* lines 50-75: one entry of results per circle
ResultOf(items, circle) ==
    [x |-> RoundCenter(circle.cx), y |-> RoundCenter(circle.cy),
     r |-> RoundRadius(circle.radius),
     label |-> MatchLabel(items, 1, RoundRadius(circle.radius))]

\* .drop_duplicates().reset_index(drop=True): the first of equal rows is kept
DropDuplicates(rows) ==
    LET keep == SelectSeq(Positions(rows),
                          LAMBDA k : \A j \in 1..(k - 1) : rows[j] # rows[k])
    IN  [k \in DOMAIN keep |-> rows[keep[k]]]

\* df.groupby('label').cumcount(): the number of earlier rows with the row's label
CumCount(rows, k) == Cardinality({j \in 1..(k - 1) : rows[j].label = rows[k].label})

\* (channels counted from 0)
ChannelFromZero(rows, k) == CumCount(rows, k)

\* line 84: df['channel'] = df.groupby('label').cumcount() + 1
ChannelFor(rows, k) == CumCount(rows, k) + 1

\* get_coordinates_from_dxf(filename, pcb_data_dict, flip_y): flip_y is read nowhere
GetCoordinatesFromDxf(entities, items, flip_y) ==
    LET rows == DropDuplicates([k \in DOMAIN entities |-> ResultOf(items, entities[k])])
    IN  [k \in DOMAIN rows |->
            [x |-> rows[k].x, y |-> rows[k].y, r |-> rows[k].r, label |-> rows[k].label,
             channel |-> ChannelFor(rows, k)]]

SpecItem(name, radius, entity) == [name |-> name, radius |-> radius, entity |-> entity]

\* pcb_data of the script's main(), lines 153-174
pcb_data ==
    << SpecItem("3mm-electrode", 15, "CIRCLE"), SpecItem("6mm-electrode", 30, "CIRCLE"),
       SpecItem("m3-mount", 15, "CIRCLE"), SpecItem("pcb-m3-mount", 20, "CIRCLE") >>

\* other tables a caller may pass: bands that overlap in part, and an item of
\* another entity kind ahead of a circle item of the same radius
SpecTables ==
    {pcb_data,
     << SpecItem("e", 15, "CIRCLE"), SpecItem("wide", 16, "CIRCLE"),
        SpecItem("m", 30, "CIRCLE") >>,
     << SpecItem("pad", 15, "LWPOLYLINE"), SpecItem("e", 15, "CIRCLE") >>}

Circles ==
    [cx : {0, 4, 1000}, cy : {2504}, radius : {144, 150, 166, 204, 300}]

NoTable == [given |-> FALSE, items |-> <<>>]
Table(items) == [given |-> TRUE, items |-> items]
NoFrame == [none |-> TRUE, rows |-> <<>>]
Frame(rows) == [none |-> FALSE, rows |-> rows]

InitExtract ==
    /\ circles \in SeqsUpTo(Circles, MaxCircles)
    /\ pcb_data_dict \in {NoTable} \cup {Table(t) : t \in SpecTables}
    /\ eflip \in BOOLEAN
    /\ eresult = NoFrame
    /\ epc = "ready"

\* lines 38-40: without a table the function prints a message and returns None
ReturnNone ==
    /\ epc = "ready"
    /\ ~pcb_data_dict.given
    /\ eresult' = NoFrame
    /\ epc' = "extracted"
    /\ UNCHANGED <<circles, pcb_data_dict, eflip>>
    /\ UNCHANGED notExtractVars

\* lines 44-104
Extract ==
    /\ epc = "ready"
    /\ pcb_data_dict.given
    /\ eresult' = Frame(GetCoordinatesFromDxf(circles, pcb_data_dict.items, eflip))
    /\ epc' = "extracted"
    /\ UNCHANGED <<circles, pcb_data_dict, eflip>>
    /\ UNCHANGED notExtractVars

NextExtract ==
    \/ ReturnNone
    \/ Extract


IdleExtract ==
    /\ circles = <<>>
    /\ pcb_data_dict = NoTable
    /\ eflip = FALSE
    /\ eresult = NoFrame
    /\ epc = "idle"

(***************************************************************************)
(* ============== example_update_pcb_from_dxf.py: main() ================= *)
(*                                                                         *)
(* mpc is the position in main(), mstate the locals, mcalls the library    *)
(* functions whose body has run, in order.  What the user answers in a     *)
(* dialog is chosen with \E.  "returned" is a return from main() (exit     *)
(* status 0), "error" the handler of lines 333-337 (exit status 1).        *)
(***************************************************************************)
NoAnswer == ""

\* the drawings the user can pick: no circle, electrodes only, an electrode and
\* a circle outside every band, a mounting hole and a large electrode
Drawing(radii) == [k \in DOMAIN radii |-> [cx |-> 1000 * k, cy |-> 2504, radius |-> radii[k]]]
Drawings == {Drawing(<<>>), Drawing(<<150, 144>>), Drawing(<<150, 166>>), Drawing(<<204, 300>>)}

DxfFiles == {"a.dxf"}
PcbFilesOfUser == {"board.kicad_pcb"}
TypedFootprints == {"CustomComponents:pad"}

\* the 'footprint' entries of pcb_data, lines 153-174
FootprintOf(label) ==
    CASE label = "3mm-electrode" -> "CustomComponents:1625-5-57-15_D3.18mm_disk"
      [] label = "6mm-electrode" ->
             "CustomComponents:2036-3-57-15_D5.99mm_6.25mmPad_6.3mmMask"
      [] label = "m3-mount" -> "MountingHole:MountingHole_3.2mm_M3_DIN965_Pad"
      [] label = "pcb-m3-mount" -> "MountingHole:MountingHole_3.2mm_M3_DIN965_Pad"

PcbDataKeys == {pcb_data[n].name : n \in DOMAIN pcb_data}

\* the parameters of apply_remapping_v2, line 260 of kicad_utils.py
RemapParameters == {"df", "remapping_style", "label", "offset", "flip_y", "verbose"}

\* the keywords of the call of lines 298-306 (df is passed by position)
RemapKeywords == {"remapping_style", "label", "style", "offset", "flip_y", "verbose"}

\* Python binds the arguments before the body runs: a keyword that is no
\* parameter raises TypeError at the call
Binds(keywords, parameters) == keywords \subseteq parameters

NoParams == [given |-> FALSE, style |-> NoAnswer, offset |-> <<0, 0>>, flip_y |-> FALSE]

InitMain ==
    /\ mpc = "step1"
    /\ mstate = [drawing |-> <<>>, dxf_filepath |-> NoAnswer, pcb_filepath |-> NoAnswer,
                 results |-> NoFrame, selected_label |-> NoAnswer,
                 footprint |-> NoAnswer, transform_params |-> NoParams,
                 data_df |-> <<>>]
    /\ mcalls = <<>>

\* lines 176-187
SelectDxf ==
    /\ mpc = "step1"
    /\ \/ /\ mpc' = "returned"
          /\ UNCHANGED mstate
       \/ \E path \in DxfFiles, drawing \in Drawings :
             /\ mstate' = [mstate EXCEPT !.dxf_filepath = path, !.drawing = drawing]
             /\ mpc' = "step2"
    /\ UNCHANGED mcalls
    /\ UNCHANGED notMainVars

\* lines 189-200
SelectPcb ==
    /\ mpc = "step2"
    /\ \/ /\ mpc' = "returned"
          /\ UNCHANGED mstate
       \/ \E path \in PcbFilesOfUser :
             /\ mstate' = [mstate EXCEPT !.pcb_filepath = path]
             /\ mpc' = "step3"
    /\ UNCHANGED mcalls
    /\ UNCHANGED notMainVars

\* lines 202-208
ExtractCoordinates ==
    /\ mpc = "step3"
    /\ LET results == Frame(GetCoordinatesFromDxf(mstate.drawing, pcb_data, TRUE))
       IN  /\ mstate' = [mstate EXCEPT !.results = results]
           /\ mpc' = IF results.none \/ results.rows = <<>> THEN "returned" ELSE "step4"
    /\ mcalls' = Append(mcalls, "get_coordinates_from_dxf")
    /\ UNCHANGED notMainVars

\* lines 210-220
SelectElement ==
    /\ mpc = "step4"
    /\ \/ /\ mpc' = "returned"
          /\ UNCHANGED mstate
       \/ \E row \in Range(mstate.results.rows) :
             /\ mstate' = [mstate EXCEPT
                              !.selected_label = row.label,
                              !.footprint = IF row.label \in PcbDataKeys
                                            THEN FootprintOf(row.label) ELSE NoAnswer]
             /\ mpc' = IF row.label \in PcbDataKeys THEN "step5" ELSE "unknown"
    /\ UNCHANGED mcalls
    /\ UNCHANGED notMainVars

\* lines 223-282: the label is no key of pcb_data; the user declines, gives no
\* name, or types the footprint name
NameFootprint ==
    /\ mpc = "unknown"
    /\ \/ /\ mpc' = "returned"
          /\ UNCHANGED mstate
       \/ \E name \in TypedFootprints :
             /\ mstate' = [mstate EXCEPT !.footprint = name]
             /\ mpc' = "step5"
    /\ UNCHANGED mcalls
    /\ UNCHANGED notMainVars

\* lines 284-294 and get_transformation_params, lines 83-143
GetTransformationParams ==
    /\ mpc = "step5"
    /\ \/ /\ mpc' = "returned"
          /\ UNCHANGED mstate
       \/ \E style \in {"A4", "A3", "A2"}, offset \in Offsets, flip_y \in BOOLEAN :
             /\ mstate' = [mstate EXCEPT
                              !.transform_params =
                                  [given |-> TRUE, style |-> style, offset |-> offset,
                                   flip_y |-> flip_y]]
             /\ mpc' = "step6"
    /\ UNCHANGED mcalls
    /\ UNCHANGED notMainVars

\* lines 296-324: steps 6 and 7.  The call of apply_remapping_v2 raises TypeError
\* when its keywords do not bind, and the exception ends main() in the handler
\* of lines 333-337.
RemapAndUpdate ==
    /\ mpc = "step6"
    /\ IF ~Binds(RemapKeywords, RemapParameters)
       THEN /\ mpc' = "error"
            /\ UNCHANGED <<mstate, mcalls>>
       ELSE LET remapped_df ==
                    ApplyRemappingV2(AsExtracted(mstate.results.rows),
                                     [style |-> "forearm-pattern",
                                      label |-> mstate.selected_label,
                                      offset |-> mstate.transform_params.offset,
                                      flip_y |-> mstate.transform_params.flip_y],
                                     [emptyTargetRaises |-> FALSE,
                                      singleRowBroadcasts |-> TRUE])
            IN  /\ mstate' = [mstate EXCEPT
                                 !.data_df = WithLabel(remapped_df.rows,
                                                       mstate.selected_label)]
                /\ mcalls' = mcalls \o <<"apply_remapping_v2", "update_footprint">>
                /\ mpc' = "returned"
    /\ UNCHANGED notMainVars

NextMain ==
    \/ SelectDxf
    \/ SelectPcb
    \/ ExtractCoordinates
    \/ SelectElement
    \/ NameFootprint
    \/ GetTransformationParams
    \/ RemapAndUpdate


IdleMain ==
    /\ mpc = "idle"
    /\ mstate = <<>>
    /\ mcalls = <<>>

(***************************************************************************)
(* The specifications: one per entry point.                                *)
(***************************************************************************)
Init == InitRewriter /\ IdleRemap /\ IdleExtract /\ IdleMain
Next == NextRewriter
Spec == Init /\ [][Next]_vars

InitR == IdleRewriter /\ InitRemap /\ IdleExtract /\ IdleMain
SpecRemap == InitR /\ [][NextRemap]_vars

InitE == IdleRewriter /\ IdleRemap /\ InitExtract /\ IdleMain
SpecExtract == InitE /\ [][NextExtract]_vars

InitM == IdleRewriter /\ IdleRemap /\ IdleExtract /\ InitMain
SpecMain == InitM /\ [][NextMain]_vars

(***************************************************************************)
(* ============================ The claims =============================== *)
(***************************************************************************)

\* The PCB file as it was read: no action writes to the input path (C10).
inputLines == fs[filename].content
outputFile == fs[NewFilename(filename)]

\* A footprint declaration line, of the footprint to update or of any name.
DeclaresF(line) == line.decl = footprint_name /\ ~line.property
DeclaresAny(line) == line.decl # "" /\ ~line.property

\* The blocks of a file: from a declaration line to the line before the next one.
BlockStarts(file) == {k \in DOMAIN file : DeclaresF(file[k])}
BlockOf(file, k) == {j \in k..Len(file) : \A m \in (k + 1)..j : ~DeclaresAny(file[m])}
CoordinateLinesOf(file, k) == {j \in BlockOf(file, k) : file[j].at /\ ~file[j].property}
ReferenceLinesOf(file, k) == {j \in BlockOf(file, k) : file[j].hasRef}
InBlockOfF(file, j) == \E k \in BlockStarts(file) : j \in BlockOf(file, k)

\* A designator made of a prefix without digits and a number, and that number.
NumberStart(d) == SetMin({p \in 1..(Len(d) + 1) : \A k \in p..Len(d) : d[k] \in Digits})
PlainDesignator(d) ==
    /\ NumberStart(d) <= Len(d)
    /\ \A k \in 1..(NumberStart(d) - 1) : d[k] \notin Digits
SuffixNumber(d) == ToInt(d, NumberStart(d), Len(d))

TheOne(S) == CHOOSE e \in S : TRUE
BlockNumber(file, k) == SuffixNumber(file[TheOne(ReferenceLinesOf(file, k))].designator)
BlockNumbers(file) == {BlockNumber(file, k) : k \in BlockStarts(file)}
TableChannelsOf(table) == {table[r].channel : r \in DOMAIN table}

\* The input of C1: N blocks of F, each with one coordinate line and one Reference
\* line, and N rows whose channels are the N reference numbers.
RoundTripInput(file, table) ==
    /\ \A k \in BlockStarts(file) :
          /\ Cardinality(CoordinateLinesOf(file, k)) = 1
          /\ Cardinality(ReferenceLinesOf(file, k)) = 1
          /\ PlainDesignator(file[TheOne(ReferenceLinesOf(file, k))].designator)
    /\ Len(table) = Cardinality(BlockStarts(file))
    /\ Cardinality(BlockNumbers(file)) = Cardinality(BlockStarts(file))
    /\ TableChannelsOf(table) = BlockNumbers(file)

RowOfChannel(table, c) == table[TheOne({r \in DOMAIN table : table[r].channel = c})]

\* C1: on a file with N complete blocks of F and a table of N rows whose channels
\* are the blocks' reference numbers, update_footprint overwrites exactly the N
\* coordinate lines of those blocks, each with the x and y of its block's channel,
\* and every other line of the output is the input line at the same position.
C1_RoundTrip ==
    (pc = "returned" /\ RoundTripInput(inputLines, df)) =>
        /\ Len(lines) = Len(inputLines)
        /\ Cardinality(overwritten) = Len(df)
        /\ overwritten =
             UNION {CoordinateLinesOf(inputLines, k) : k \in BlockStarts(inputLines)}
        /\ \A k \in BlockStarts(inputLines) :
             LET row == RowOfChannel(df, BlockNumber(inputLines, k))
             IN  lines[TheOne(CoordinateLinesOf(inputLines, k))] =
                     FormatCoordinateLine(row.x, row.y)
        /\ \A j \in DOMAIN lines : j \notin overwritten => lines[j] = inputLines[j]
        /\ Len(df) > 0 => outputFile = File(lines)

\* Two complete blocks of F around a block of another footprint, both rewritten.
C1_Witness ==
    /\ pc = "returned"
    /\ RoundTripInput(inputLines, df)
    /\ Len(df) = 2
    /\ Cardinality(overwritten) = 2
    /\ \E k \in DOMAIN inputLines : inputLines[k].decl = other_footprint
    /\ outputFile.exists

\* C2: every line update_footprint changes lies inside a block opened by a
\* declaration of footprint F, for any input line sequence.
C2_OnlyInsideBlocksOfF ==
    \A j \in overwritten : InBlockOfF(inputLines, j)

\* The channels of the Reference lines of a file, wherever they stand.
ReferenceNumbers(file) ==
    {ReferenceChannel(file[j].designator) :
        j \in {m \in DOMAIN file : file[m].hasRef /\ HasDigits(file[m].designator)}}

NothingToPlace(file, table) ==
    \/ \A k \in DOMAIN file : file[k].decl # footprint_name
    \/ ReferenceNumbers(file) \cap TableChannelsOf(table) = {}
    \/ table = <<>>

\* C10: the '_updated' file is written exactly when at least one block was
\* updated.  Without the footprint name in the file, without a channel of the file
\* in the table, or with an empty table, no line changes, the count is 0 and no
\* file is written; a partial update (1..N-1 of N rows) is written, with the
\* warning; the input file is never modified.
C10_WrittenIffUpdated ==
    /\ [](outputFile.exists =>
            pc = "returned" /\ footprints_updated >= 1 /\ outputFile.content = lines)
    /\ [](pc = "returned" => (outputFile.exists <=> footprints_updated >= 1))
    /\ [](pc = "returned" /\ NothingToPlace(inputLines, df) =>
            footprints_updated = 0 /\ overwritten = {} /\ lines = inputLines
            /\ ~outputFile.exists)
    /\ [](pc = "returned" /\ footprints_updated >= 1 =>
            (warned <=> footprints_updated < Len(df)))
    /\ [](warned => outputFile.exists)
    /\ [][fs'[filename] = fs[filename]]_vars

\* One of two rows placed: the file is written and the warning printed.
C10_Witness ==
    /\ pc = "returned"
    /\ Len(df) = 2
    /\ footprints_updated = 1
    /\ warned
    /\ outputFile.exists
    /\ fs[filename].content # outputFile.content

(***************************************************************************)
(* Claims about apply_remapping_v2, under SpecRemap.                       *)
(***************************************************************************)
Called == rpc \in {"applied", "reapplied"}
Selected(table) == WithLabel(table, rargs.label)

Count(seq, e) == Cardinality({k \in DOMAIN seq : seq[k] = e})
SameBag(a, b) ==
    /\ Len(a) = Len(b)
    /\ \A e \in Range(a) \cup Range(b) : Count(a, e) = Count(b, e)

XYR(row) == <<row.x, row.y, row.r>>
\* the (x, y, r) of a returned row with the optional negation and the offset undone
Undone(row) ==
    <<row.x - rargs.offset[1],
      (IF rargs.flip_y THEN -row.y ELSE row.y) - rargs.offset[2],
      row.r>>

TriplesIn == [k \in DOMAIN Selected(rdf) |-> XYR(Selected(rdf)[k])]
TriplesOut == [k \in DOMAIN Selected(rresult.rows) |-> Undone(Selected(rresult.rows)[k])]

PreservesTriples == ~rresult.raised /\ SameBag(TriplesIn, TriplesOut)

ExchangedPairs(style) ==
    CASE style = "8-by-8" -> swap_pairs_8by8
      [] style = "8-by-8_swap" -> Append(swap_pairs_8by8_swap, block_swap)
      [] OTHER -> <<>>
RowsInRange(rows, lo, hi) == Cardinality({k \in DOMAIN rows : rows[k].channel \in lo..hi})
EvenlyPopulated(table, args) ==
    LET rows == ForceReferenceChannels(WithLabel(table, args.label))
    IN  \A p \in Range(ExchangedPairs(args.style)) :
            RowsInRange(rows, p[1], p[2]) = RowsInRange(rows, p[3], p[4])

ChannelOf(table, uid) ==
    (CHOOSE row \in Range(table) : row.uid = uid /\ row.label = rargs.label).channel

SameChannelsAgain ==
    /\ ~rsecond.raised
    /\ Len(Selected(rsecond.rows)) = Len(Selected(rresult.rows))
    /\ \A row \in Range(Selected(rsecond.rows)) :
          row.channel = ChannelOf(rresult.rows, row.uid)

\* C7 as stated: for every table, label, offset and flip_y, 'forearm-pattern'
\* applied to its own output gives every row of the label the channel the first
\* application gave it.
C7_ForearmIdempotent == rpc = "reapplied" => SameChannelsAgain

SharesX(rows) == \E a, b \in DOMAIN rows : a # b /\ rows[a].x = rows[b].x

\* C7 amended: the same, when flip_y is false or no two rows of the label have
\* the same x.
C7_ForearmIdempotentUnflipped ==
    (rpc = "reapplied" /\ (~rargs.flip_y \/ ~SharesX(Selected(rdf)))) => SameChannelsAgain

\* Unflipped, offset, two rows of the label on one x, and the first application
\* renumbered a row.
C7_Witness ==
    /\ rpc = "reapplied"
    /\ ~rargs.flip_y
    /\ rargs.offset # <<0, 0>>
    /\ SharesX(Selected(rdf))
    /\ \E row \in Range(Selected(rdf)) : ChannelOf(rresult.rows, row.uid) # row.channel
    /\ SameChannelsAgain

TripleAtChannel(table, c) ==
    XYR(CHOOSE row \in Range(Selected(table)) : row.channel = c)
Has128Channels(table) ==
    /\ Len(Selected(table)) = 128
    /\ {row.channel : row \in Range(Selected(table))} = 1..128

\* C8: on a label with 128 rows and channels 1..128, '8-by-8_swap' leaves at
\* channel c what '8-by-8' leaves at channel c+64 (c <= 64) or c-64 (c >= 65).
C8_SwapIsEightByEightThenBlocks ==
    (rpc = "applied" /\ rargs.style = "8-by-8_swap" /\ Has128Channels(rdf)) =>
        LET plain == ApplyRemappingV2(rdf, [rargs EXCEPT !.style = "8-by-8"], rbuild)
        IN  /\ ~rresult.raised
            /\ ~plain.raised
            /\ \A c \in 1..128 :
                  TripleAtChannel(rresult.rows, c) =
                      TripleAtChannel(plain.rows, IF c <= 64 THEN c + 64 ELSE c - 64)

\* The scenario of the documentation: channel 1 ends with what channel 65 held
\* after the range swaps, which is not what channel 65 held at first.
C8_Witness ==
    /\ rpc = "applied"
    /\ rargs.style = "8-by-8_swap"
    /\ Has128Channels(rdf)
    /\ ~rresult.raised
    /\ Undone(CHOOSE row \in Range(Selected(rresult.rows)) : row.channel = 1)
          # TripleAtChannel(rdf, 65)

SameColumns(a, b) ==
    /\ a.x = b.x /\ a.y = b.y /\ a.r = b.r /\ a.nan = b.nan
    /\ a.label = b.label /\ a.channel = b.channel

\* C9: after a named strategy has run, every row of the selected label has
\* (x + dx, y + dy), or (x + dx, -(y + dy)) under flip_y, every row of another
\* label is returned with its columns unchanged, and the output is exactly the
\* selected label's rows plus those untouched rows.
C9_OffsetThenFlipAndPassThrough ==
    (rpc = "applied" /\ Reaches373(rdf, rargs) /\ ~rresult.raised) =>
        LET out == rresult.rows
            others == WithoutLabel(rdf, rargs.label)
            n == Len(rstaged)
        IN  /\ Len(out) = Len(rdf)
            /\ Len(out) = n + Len(others)
            /\ \A k \in 1..n :
                  /\ out[k].label = rargs.label
                  /\ out[k].x = rstaged[k].x + rargs.offset[1]
                  /\ out[k].y = IF rargs.flip_y THEN -(rstaged[k].y + rargs.offset[2])
                                ELSE rstaged[k].y + rargs.offset[2]
                  /\ out[k].r = rstaged[k].r
                  /\ out[k].channel = rstaged[k].channel
            /\ \A j \in DOMAIN others : SameColumns(out[n + j], others[j])

(***************************************************************************)
(* Claims about get_coordinates_from_dxf, under SpecExtract.               *)
(***************************************************************************)
Extracted == epc = "extracted" /\ ~eresult.none
LabelsOut == {row.label : row \in Range(eresult.rows)}
ChannelsOf(label) ==
    LET rows == SelectSeq(eresult.rows, LAMBDA row : row.label = label)
    IN  [k \in DOMAIN rows |-> rows[k].channel]

\* C5: in the returned table the channels of the rows of one label are 1..K, in
\* the order of the rows.
C5_ChannelsAreOneToK ==
    Extracted => \A label \in LabelsOut :
                    ChannelsOf(label) = [k \in 1..Len(ChannelsOf(label)) |-> k]

\* A duplicate was dropped and the two rows left carry one label.
C5_Witness ==
    /\ Extracted
    /\ Len(eresult.rows) < Len(circles)
    /\ \E label \in LabelsOut : Len(ChannelsOf(label)) = 2

\* The claim's reading of the table: the band of an item, the first item of
\* kind CIRCLE whose band holds a rounded radius (0 when there is none).
InBand(r, item) == item.radius - 1 <= r /\ r <= item.radius + 1
Matches(items, r) == {n \in DOMAIN items : items[n].entity = "CIRCLE" /\ InBand(r, items[n])}
FirstSpec(items, r) == IF Matches(items, r) = {} THEN 0 ELSE SetMin(Matches(items, r))
ExpectedLabel(items, r) ==
    IF FirstSpec(items, r) = 0 THEN RadiusLabel(r) ELSE items[FirstSpec(items, r)].name

Rounded(circle) ==
    <<RoundTo(circle.cx, 10), RoundTo(circle.cy, 10), RoundTo(circle.radius, 10)>>
RowsLabeled(name) == {k \in DOMAIN eresult.rows : eresult.rows[k].label = name}
DistinctCirclesOf(items, n) ==
    {Rounded(c) : c \in {d \in Range(circles) : FirstSpec(items, Rounded(d)[3]) = n}}

LabelsByFirstMatch(items) ==
    /\ \A row \in Range(eresult.rows) : row.label = ExpectedLabel(items, row.r)
    /\ {<<row.x, row.y, row.r>> : row \in Range(eresult.rows)}
          = {Rounded(c) : c \in Range(circles)}
    /\ \A n \in DOMAIN items :
          items[n].entity = "CIRCLE" =>
              Cardinality(RowsLabeled(items[n].name))
                  = Cardinality(DistinctCirclesOf(items, n))

BandsOverlap(a, b) == a.radius - 1 <= b.radius + 1 /\ b.radius - 1 <= a.radius + 1

\* C6 as stated: every circle gets the label of the first CIRCLE item within 0.1
\* of its rounded radius, or 'radius_<r>'; the rows labeled S are as many as the
\* distinct (x, y, r) whose first match is S; and an item listed after another
\* CIRCLE item with an overlapping radius band labels no row.
C6_FirstMatchAndOverlapShadows ==
    Extracted =>
        LET items == pcb_data_dict.items
        IN  /\ LabelsByFirstMatch(items)
            /\ \A n \in DOMAIN items :
                  (\E m \in 1..(n - 1) :
                       items[m].entity = "CIRCLE" /\ BandsOverlap(items[m], items[n]))
                      => RowsLabeled(items[n].name) = {}

\* C6 amended: the same, the last part for an item listed after another CIRCLE
\* item of the same radius (as 'm3-mount' after '3mm-electrode').
C6_FirstMatchAndEqualShadows ==
    Extracted =>
        LET items == pcb_data_dict.items
        IN  /\ LabelsByFirstMatch(items)
            /\ \A n \in DOMAIN items :
                  (\E m \in 1..(n - 1) :
                       items[m].entity = "CIRCLE" /\ items[m].radius = items[n].radius)
                      => RowsLabeled(items[n].name) = {}

\* pcb_data of main(): circles of radius 1.44, 1.5 and 1.66 are drawn, the first
\* two become '3mm-electrode', the third 'radius_1.7', none 'm3-mount'.
C6_Witness ==
    /\ Extracted
    /\ pcb_data_dict.items = pcb_data
    /\ {RoundTo(c.radius, 10) : c \in Range(circles)} = {14, 15, 17}
    /\ Cardinality(RowsLabeled("3mm-electrode")) = 2
    /\ Cardinality(RowsLabeled("radius_1.7")) = 1
    /\ RowsLabeled("m3-mount") = {}

(***************************************************************************)
(* Claims about main(), under SpecMain.                                    *)
(***************************************************************************)
Ended == mpc \in {"returned", "error"}

\* The user picked both files and a detected label, a footprint name is there,
\* the prompts of step 5 were completed and the extractor gave rows.
EverythingSelected ==
    /\ mstate.dxf_filepath # NoAnswer
    /\ mstate.pcb_filepath # NoAnswer
    /\ ~mstate.results.none /\ mstate.results.rows # <<>>
    /\ mstate.selected_label # NoAnswer
    /\ mstate.footprint # NoAnswer
    /\ mstate.transform_params.given

\* C3: the run never ends in the top-level error handler, and a run in which
\* everything was selected ends with extract, remap, rewrite called in this
\* order, the rewriter on the remapped rows of the selected label.
C3_RunReachesRewriter ==
    /\ mpc # "error"
    /\ (Ended /\ EverythingSelected) =>
           /\ mcalls = <<"get_coordinates_from_dxf", "apply_remapping_v2", "update_footprint">>
           /\ mstate.data_df # <<>>
           /\ \A row \in Range(mstate.data_df) : row.label = mstate.selected_label

\* What the flag of the extractor asks for: the rounded center y, negated when
\* flip_y is set.
FlippedCenter(circle, flip_y) ==
    <<RoundTo(circle.cx, 10),
      IF flip_y THEN -RoundTo(circle.cy, 10) ELSE RoundTo(circle.cy, 10),
      RoundTo(circle.radius, 10)>>

\* C11: get_coordinates_from_dxf honours flip_y: with flip_y set every returned
\* row's y is the negation of the circle's rounded center y, without it the
\* rounded center y itself.
C11_ExtractorHonoursFlip ==
    Extracted =>
        {<<row.x, row.y, row.r>> : row \in Range(eresult.rows)}
            = {FlippedCenter(c, eflip) : c \in Range(circles)}

\* C12: a call with a strategy name outside the three named ones, or with a label
\* no row carries, returns the input table with every row unchanged, at every
\* row count of the label.
C12_UnknownStyleOrLabelReturnsInput ==
    (rpc = "applied" /\ ~Reaches373(rdf, rargs)) =>
        /\ ~rresult.raised
        /\ rresult.rows = rdf

\* An unknown style on a label of 129 or more rows, with an offset and the flip.
C12_Witness ==
    /\ rpc = "applied"
    /\ rargs.style \notin NamedStyles
    /\ Len(Selected(rdf)) >= 129
    /\ Len(rdf) > Len(Selected(rdf))
    /\ rargs.offset # <<0, 0>>
    /\ rargs.flip_y
    /\ rresult.rows = rdf

\* A label no row carries (the table has rows of other labels).
C12_LabelAbsent ==
    /\ rpc = "applied"
    /\ rargs.style \in NamedStyles
    /\ rdf # <<>>
    /\ Selected(rdf) = <<>>

\* selected_df after lines 293-296 of the call made, whatever the style.
ForcedRows == ForceReferenceChannels(Selected(rdf))
ManyRows == rpc = "applied" /\ Len(Selected(rdf)) >= 129

\* C13: with 129 or more rows of the label, before any swap the first and the
\* last row of the label (by position among the label's rows) have channel 129
\* and 130, no other row's channel changes, no row is added, and the channels of
\* the label are pairwise distinct.
C13_FirstAndLastBecomeReferences ==
    ManyRows =>
        LET before == Selected(rdf)
            n == Len(before)
        IN  /\ Len(ForcedRows) = n
            /\ ForcedRows[1].channel = 129
            /\ ForcedRows[n].channel = 130
            /\ \A k \in 2..(n - 1) : ForcedRows[k].channel = before[k].channel
            /\ \A j, k \in 1..n :
                  j # k => ForcedRows[j].channel # ForcedRows[k].channel

\* C14: within a block of footprint F the line recorded and overwritten is the
\* first line of the block that holds '(at ' and is no property line; a later
\* such line ahead of the Reference line does not replace it.
C14_FirstCoordinateLineIsOverwritten ==
    \A j \in overwritten :
        \A k \in BlockStarts(inputLines) :
            j \in BlockOf(inputLines, k) => j = SetMin(CoordinateLinesOf(inputLines, k))

\* The designator of the line the loop stands on, when the scanner reads it as a
\* Reference line inside a block.
AtReferenceLine == pc = "loop" /\ i <= Len(lines) /\ SeesReference(lines[i])
HasSuffix(d) == NumberStart(d) <= Len(d)
RowsOfSuffix(d) ==
    IF HasSuffix(d) THEN {r \in DOMAIN df : df[r].channel = SuffixNumber(d)} ELSE {}

\* C15: at every Reference line met inside a block, whatever the designator, the
\* scanner takes the designator's integer suffix as the channel, or else leaves
\* the block untouched; the scan never aborts on a designator.
C15_SuffixOrSkipNeverAborts ==
    /\ [](pc # "raised")
    /\ [][AtReferenceLine =>
            LET d == lines[i].designator
            IN  /\ current_channel' \in
                      {NoneVal} \cup (IF HasSuffix(d) THEN {SuffixNumber(d)} ELSE {})
                /\ lines' # lines =>
                      \E r \in RowsOfSuffix(d) :
                          \E j \in DOMAIN lines :
                              /\ lines' = [lines EXCEPT
                                             ![j] = FormatCoordinateLine(df[r].x, df[r].y)]
         ]_vars
=============================================================================
